---- MODULE Spec2Model ----
(***************************************************************************)
(* FAU Events: an event-scheduling web application.                        *)
(*                                                                         *)
(* Server: an express application over two SQL tables, Users and Events    *)
(* (src/unnamed/part_000 lines 1-239 is the build with accounts hashed by  *)
(* bcrypt and the DELETE endpoint; src/server/server.js lines 116-307 is   *)
(* the build that stores the password as given; src/unnamed/part_001 is    *)
(* the build with table Events only).  Client: the React component of      *)
(* src/client/src/App.jsx.                                                 *)
(*                                                                         *)
(* The client calls PUT /api/events/:id/approve and reads a field          *)
(* `approved` of every event; no server file of the source tree declares   *)
(* that column or that endpoint.  The column and the endpoint are modelled *)
(* from the specification (ApprovedDefault, approveStatus, approveEvents,  *)
(* PutApprove); everything else is translated from the source.             *)
(*                                                                         *)
(* Handlers are modelled on the path where the store answers the query.    *)
(***************************************************************************)
EXTENDS Integers, Sequences, FiniteSets, TLC

VARIABLES
    build,        \* which server file is deployed: "part_000", "server_js", "part_001"
    pool,         \* server: initializeDatabase "connecting", "connected", or "failed"
    reachable,    \* the database answers connections and queries
    running,      \* the server process has not exited
    Events,       \* table Events: id -> row
    identity,     \* IDENTITY(1,1) counter of Events: last id handed out
    Users,        \* table Users: id -> row
    userIdentity, \* IDENTITY(1,1) counter of Users
    regs,         \* POST /api/register requests suspended between SELECT and INSERT
    resp,         \* the last response a server handler sent
    deleted,      \* history: ids whose DELETE answered 200
    registered,   \* history: the (username, password, id) of every 201 of register
    currentUser,  \* client: App state currentUser
    events,       \* client: App state events
    loading,      \* client: App state loading
    error,        \* client: App state error
    sortOrder,    \* client: App state sortOrder, 'asc' or 'desc'
    inflight      \* client: requests whose answer has not been handled yet

vars == <<build, pool, reachable, running, Events, identity, Users,
          userIdentity, regs, resp, deleted,
          registered, currentUser, events, loading, error, sortOrder, inflight>>

processVars == <<pool, reachable, running>>
serverEventVars == <<Events, identity, deleted>>
accountVars == <<Users, userIdentity, regs, registered>>
clientVars == <<currentUser, events, loading, error, sortOrder, inflight>>

----------------------------------------------------------------------------
(* Bounds *)

MaxEvents == 2      \* rows ever inserted into Events
MaxUsers == 2       \* rows ever inserted into Users
MaxRegs == 2        \* register requests suspended between SELECT and INSERT

----------------------------------------------------------------------------
(* JavaScript / SQL values.  A value is a record [t, s]: t is the type tag  *)
(* and s the characters of a string (a sequence of one-character strings).  *)

UNDEFINED == [t |-> "undefined", s |-> <<>>]
NULL == [t |-> "null", s |-> <<>>]
JsTrue == [t |-> "true", s |-> <<>>]
Str(chars) == [t |-> "str", s |-> chars]

\* JavaScript truthiness of a value: undefined, null and "" are falsy.
Truthy(v) == v.t = "true" \/ (v.t = "str" /\ v.s # <<>>)

\* a || b
Or(a, b) == IF Truthy(a) THEN a ELSE b

WhiteSpace == {" ", "\t"}

RECURSIVE TrimStart(_)
TrimStart(chars) ==
    IF chars # <<>> /\ Head(chars) \in WhiteSpace
    THEN TrimStart(Tail(chars))
    ELSE chars

RECURSIVE TrimEnd(_)
TrimEnd(chars) ==
    IF chars # <<>> /\ chars[Len(chars)] \in WhiteSpace
    THEN TrimEnd(SubSeq(chars, 1, Len(chars) - 1))
    ELSE chars

\* String.prototype.trim
trim(chars) == TrimEnd(TrimStart(chars))

----------------------------------------------------------------------------
(* Dates and times as the SQL driver and CONVERT see them *)

Digits == <<"0", "1", "2", "3", "4", "5", "6", "7", "8", "9">>

IsDigit(c) == \E i \in 1..10 : Digits[i] = c

DigitVal(c) == (CHOOSE i \in 1..10 : Digits[i] = c) - 1

DigitChar(n) == Digits[n + 1]

TwoDigits(n) == <<DigitChar(n \div 10), DigitChar(n % 10)>>

Num2(chars, i) == 10 * DigitVal(chars[i]) + DigitVal(chars[i + 1])

\* "YYYY-MM-DD" as sql.Date accepts it
IsIsoDate(chars) ==
    /\ Len(chars) = 10
    /\ chars[5] = "-" /\ chars[8] = "-"
    /\ \A i \in {1, 2, 3, 4, 6, 7, 9, 10} : IsDigit(chars[i])
    /\ Num2(chars, 6) \in 1..12
    /\ Num2(chars, 9) \in 1..31

\* the DATE value of a well-formed string: <<year, month, day>>
ParseDate(chars) ==
    <<100 * Num2(chars, 1) + Num2(chars, 3), Num2(chars, 6), Num2(chars, 9)>>

\* CONVERT(NVARCHAR, date, 23): yyyy-mm-dd
ConvertDate23(d) ==
    TwoDigits(d[1] \div 100) \o TwoDigits(d[1] % 100) \o <<"-">>
        \o TwoDigits(d[2]) \o <<"-">> \o TwoDigits(d[3])

DateLess(a, b) ==
    \/ a[1] < b[1]
    \/ a[1] = b[1] /\ a[2] < b[2]
    \/ a[1] = b[1] /\ a[2] = b[2] /\ a[3] < b[3]

\* "HH:MM" or "HH:MM:SS" as the TIME column converts it
IsTimeOfDay(chars) ==
    /\ Len(chars) \in {5, 8}
    /\ chars[3] = ":"
    /\ IsDigit(chars[1]) /\ IsDigit(chars[2]) /\ IsDigit(chars[4]) /\ IsDigit(chars[5])
    /\ Num2(chars, 1) \in 0..23
    /\ Num2(chars, 4) \in 0..59
    /\ Len(chars) = 8 =>
          /\ chars[6] = ":" /\ IsDigit(chars[7]) /\ IsDigit(chars[8])
          /\ Num2(chars, 7) \in 0..59

\* the TIME value: <<hour, minute, second>>
ParseTime(chars) ==
    <<Num2(chars, 1), Num2(chars, 4), IF Len(chars) = 8 THEN Num2(chars, 7) ELSE 0>>

\* CONVERT(NVARCHAR, time, 8): hh:mi:ss
ConvertTime8(tm) ==
    TwoDigits(tm[1]) \o <<":">> \o TwoDigits(tm[2]) \o <<":">> \o TwoDigits(tm[3])

SqlDate(d) == [t |-> "date", s |-> d]
SqlTime(tm) == [t |-> "time", s |-> tm]

----------------------------------------------------------------------------
(* Identities and request inputs *)

\* the reserved administrator username, compared by the client
FAUadmin == Str(<<"FAUadmin">>)
alice == Str(<<"alice">>)
anonymous == Str(<<"anonymous">>)

\* who sends a request: the administrator, another account, nobody
Callers == {FAUadmin, alice, UNDEFINED}

Exam == Str(<<"Exam">>)
Titles == {Exam, Str(<<>>)}
Dec05 == Str(<<"2", "0", "2", "5", "-", "1", "2", "-", "0", "5">>)
Dec06 == Str(<<"2", "0", "2", "5", "-", "1", "2", "-", "0", "6">>)
Tomorrow == Str(<<"t", "o", "m", "o", "r", "r", "o", "w">>)
Dates == {Dec05, Dec06, Tomorrow, UNDEFINED}
Nine == Str(<<"0", "9", ":", "0", "0">>)
HalfPastTwo == Str(<<"1", "4", ":", "3", "0">>)
Times == {HalfPastTwo}
Descriptions == {UNDEFINED}
UserIds == {FAUadmin, alice, UNDEFINED}

EventIds == 1..(MaxEvents + 1)

\* a response, with the request it answers: op, the sender (caller: the
\* userId or username of the body where there is one), the password of the
\* body, the id of the path, the query flag; then the status code, the rows,
\* the user object and the message of the body; repeat is history: the
\* request was an approve of a row that was approved already
NoUser == [id |-> 0, username |-> UNDEFINED, email |-> UNDEFINED]

NoResponse ==
    [op |-> "none", caller |-> UNDEFINED, password |-> UNDEFINED, id |-> 0,
     includePending |-> FALSE, status |-> 0, rows |-> <<>>, user |-> NoUser,
     message |-> "", repeat |-> FALSE]

Response(op, caller, id, status, rows) ==
    [op |-> op, caller |-> caller, password |-> UNDEFINED, id |-> id,
     includePending |-> FALSE, status |-> status, rows |-> rows, user |-> NoUser,
     message |-> "", repeat |-> FALSE]

----------------------------------------------------------------------------
(* Table Events *)

\* the default of the column `approved`
ApprovedDefault == FALSE

Midnight == Str(<<"0", "0", ":", "0", "0", ":", "0", "0">>)

\* let timeValue = time; if (!timeValue || ...) timeValue = null;
\* in part_001: time || '00:00:00'
timeValue(b, time) ==
    IF b = "server_js"
    THEN IF ~Truthy(time) \/ time = Nine \/ trim(time.s) = <<>> THEN NULL ELSE time
    ELSE IF b = "part_001"
    THEN Or(time, Midnight)
    ELSE IF ~Truthy(time) \/ trim(time.s) = <<>> THEN NULL ELSE time

\* description && description.trim() !== '' ? description : null
finalDescription(description) ==
    IF Truthy(description) /\ trim(description.s) # <<>> THEN description ELSE NULL

\* the value bound to @description: finalDescription, in part_001 the
\* description of the body as it is (undefined is bound as NULL)
storedDescription(b, description) ==
    IF b = "part_001"
    THEN IF description = UNDEFINED THEN NULL ELSE description
    ELSE finalDescription(description)

\* the driver and the server accept the parameters of the INSERT
InsertAccepts(date, tv) ==
    /\ IsIsoDate(date.s)
    /\ tv # NULL => IsTimeOfDay(trim(tv.s))

\* mutant: the userId of the body is bound as it is
ownerAsGiven(userId) == userId

\* userId || 'anonymous'
owner(userId) == Or(userId, anonymous)

\* the row INSERT INTO Events (title, description, date, time, userId) stores
InsertedRow(title, description, date, tv, userId) ==
    [title |-> title,
     description |-> description,
     date |-> SqlDate(ParseDate(date.s)),
     time |-> IF tv = NULL THEN NULL ELSE SqlTime(ParseTime(trim(tv.s))),
     userId |-> owner(userId),
     approved |-> ApprovedDefault]

\* SELECT / OUTPUT id, title, description, CONVERT(date, 23), CONVERT(time, 8), userId
WireRow(id, row) ==
    [id |-> id,
     title |-> row.title,
     description |-> row.description,
     date |-> Str(ConvertDate23(row.date.s)),
     time |-> IF row.time = NULL THEN NULL ELSE Str(ConvertTime8(row.time.s)),
     userId |-> row.userId,
     approved |-> UNDEFINED]

\* the orders ORDER BY date DESC may return the rows of tbl in
DateDescOrders(tbl) ==
    {o \in [1..Cardinality(DOMAIN tbl) -> DOMAIN tbl] :
        /\ \A i, j \in DOMAIN o : i # j => o[i] # o[j]
        /\ \A i, j \in DOMAIN o :
              i < j => ~DateLess(tbl[o[i]].date.s, tbl[o[j]].date.s)}

\* the row the INSERT returns: the OUTPUT list, in part_001 OUTPUT inserted.*
OutputRow(b, id, row) ==
    IF b = "part_001"
    THEN [id |-> id, title |-> row.title, description |-> row.description,
          date |-> row.date, time |-> row.time, userId |-> row.userId,
          approved |-> UNDEFINED]
    ELSE WireRow(id, row)

Recordset(tbl, o) == [i \in DOMAIN o |-> WireRow(o[i], tbl[o[i]])]

Max(S) == CHOOSE m \in S : \A n \in S : n <= m

\* mutant: the next id is one more than the largest id in the table
InsertedIdAfterLargest(last, tbl) == IF DOMAIN tbl = {} THEN 1 ELSE Max(DOMAIN tbl) + 1

\* mutant: the next id is the smallest one no row of the table has
InsertedIdSmallestFree(last, tbl) ==
    CHOOSE i \in 1..(Cardinality(DOMAIN tbl) + 1) :
        i \notin DOMAIN tbl /\ \A j \in 1..(i - 1) : j \in DOMAIN tbl

\* the id IDENTITY(1,1) gives the next row, last being the last one given
InsertedId(last, tbl) == last + 1

\* mutant: the DELETE always reports one row
rowsAffectedAlways(tbl, id) == 1

\* result.rowsAffected[0] of DELETE FROM Events WHERE id = @id
rowsAffected(tbl, id) == IF id \in DOMAIN tbl THEN 1 ELSE 0

\* mutant: the DELETE leaves the row in the table
RemoveNothing(tbl, id) == tbl

Remove(tbl, id) == [i \in DOMAIN tbl \ {id} |-> tbl[i]]

Insert(tbl, id, row) == [i \in DOMAIN tbl \cup {id} |-> IF i = id THEN row ELSE tbl[i]]

----------------------------------------------------------------------------
(* Request handlers over Events *)

\* mutant: only the date is required
createInvalidDateOnly(title, date) == ~Truthy(date)

\* if (!title || !date)
createInvalid(title, date) == ~Truthy(title) \/ ~Truthy(date)

\* app.post('/api/events')
PostEvents(title, description, date, time, userId) ==
    /\ IF createInvalid(title, date)
       THEN /\ resp' = Response("create", userId, 0, 400, <<>>)
            /\ UNCHANGED serverEventVars
       ELSE LET tv == timeValue(build, time)
                fd == storedDescription(build, description)
            IN  IF ~InsertAccepts(date, tv)
                THEN /\ resp' = Response("create", userId, 0, 500, <<>>)
                     /\ UNCHANGED serverEventVars
                ELSE LET id == InsertedId(identity, Events)
                     IN  /\ identity < MaxEvents
                         /\ identity' = identity + 1
                         /\ Events' = Insert(Events, id,
                                             InsertedRow(title, fd, date, tv, userId))
                         /\ resp' = Response("create", userId, id, 201,
                                             <<OutputRow(build, id, Events'[id])>>)
                         /\ UNCHANGED deleted
    /\ UNCHANGED <<build, processVars, accountVars, clientVars>>

\* app.get('/api/events'); the query string is not read
GetEvents(caller, includePending) ==
    /\ \E o \in DateDescOrders(Events) :
          resp' = [Response("list", caller, 0, 200, Recordset(Events, o))
                       EXCEPT !.includePending = includePending]
    /\ UNCHANGED <<build, processVars, serverEventVars, accountVars, clientVars>>

\* app.delete('/api/events/:id')
DeleteEvents(caller, id) ==
    /\ IF rowsAffected(Events, id) = 0
       THEN /\ resp' = Response("delete", caller, id, 404, <<>>)
            /\ UNCHANGED serverEventVars
       ELSE /\ Events' = Remove(Events, id)
            /\ deleted' = deleted \cup {id}
            /\ resp' = Response("delete", caller, id, 200, <<>>)
            /\ UNCHANGED identity
    /\ UNCHANGED <<build, processVars, accountVars, clientVars>>

\* mutant: an id that matches no row is answered as a success
approveStatusSilent(tbl, id) == 200

\* PUT /api/events/:id/approve -> 200 Event | 404; the request names the
\* event and nothing else: the status of the answer
approveStatus(tbl, id) == IF id \notin DOMAIN tbl THEN 404 ELSE 200

\* mutant: the request flips the flag
approveEventsToggle(tbl, id) ==
    IF id \in DOMAIN tbl THEN [tbl EXCEPT ![id].approved = ~@] ELSE tbl

\* mutant: the request writes the row whether or not the id is in the table
approveEventsUpsert(tbl, id) ==
    IF id \in DOMAIN tbl
    THEN [tbl EXCEPT ![id].approved = TRUE]
    ELSE Insert(tbl, id, [InsertedRow(Exam, NULL, Dec05, NULL, UNDEFINED)
                              EXCEPT !.approved = TRUE])

\* setApproved(id): the table afterwards
approveEvents(tbl, id) ==
    IF id \in DOMAIN tbl THEN [tbl EXCEPT ![id].approved = TRUE] ELSE tbl

\* the Event in the body of the answer of an approve
approvedRow(tbl, id) ==
    IF id \in DOMAIN tbl
    THEN <<[WireRow(id, tbl[id]) EXCEPT !.approved = JsTrue]>>
    ELSE <<>>

PutApprove(caller, id) ==
    /\ Events' = approveEvents(Events, id)
    /\ resp' = [Response("approve", caller, id, approveStatus(Events, id),
                         approvedRow(Events', id))
                    EXCEPT !.repeat = id \in DOMAIN Events /\ Events[id].approved]
    /\ UNCHANGED <<build, processVars, identity, deleted, accountVars, clientVars>>

----------------------------------------------------------------------------
(* The server's event handlers, any caller sending any request *)

Init ==
    /\ build = "part_000"
    /\ pool = "connected"
    /\ reachable = TRUE
    /\ running = TRUE
    /\ Events = <<>>
    /\ identity = 0
    /\ Users = <<>>
    /\ userIdentity = 0
    /\ regs = {}
    /\ resp = NoResponse
    /\ deleted = {}
    /\ registered = {}
    /\ currentUser = NULL
    /\ events = <<>>
    /\ loading = FALSE
    /\ error = NULL
    /\ sortOrder = "asc"
    /\ inflight = {}

Next ==
    \/ \E title \in Titles, description \in Descriptions, date \in Dates,
          time \in Times, userId \in UserIds :
          PostEvents(title, description, date, time, userId)
    \/ \E caller \in Callers, includePending \in BOOLEAN :
          GetEvents(caller, includePending)
    \/ \E caller \in Callers, id \in EventIds : DeleteEvents(caller, id)
    \/ \E caller \in Callers, id \in EventIds : PutApprove(caller, id)

Spec == Init /\ [][Next]_vars

----------------------------------------------------------------------------
(* The create handler of each build, on bodies that differ from an ordinary *)
(* one in one field at a time                                               *)

Blank == Str(<<" ">>)
Soon == Str(<<"s", "o", "o", "n">>)
BringId == Str(<<"B", "r", "i", "n", "g", " ", "I", "D">>)

TitlesAll == {Exam, Blank, Str(<<>>), UNDEFINED}
DatesAll == {Dec05, Tomorrow, UNDEFINED}
TimesAll == {HalfPastTwo, Nine, Soon, Blank, Str(<<>>), UNDEFINED}
DescriptionsAll == {BringId, Blank, Str(<<>>), UNDEFINED}
UserIdsAll == {alice, anonymous, Str(<<>>), UNDEFINED}

InitCreate ==
    /\ build \in {"part_000", "server_js", "part_001"}
    /\ pool = "connected"
    /\ reachable = TRUE
    /\ running = TRUE
    /\ Events = <<>>
    /\ identity = 0
    /\ Users = <<>>
    /\ userIdentity = 0
    /\ regs = {}
    /\ resp = NoResponse
    /\ deleted = {}
    /\ registered = {}
    /\ currentUser = NULL
    /\ events = <<>>
    /\ loading = FALSE
    /\ error = NULL
    /\ sortOrder = "asc"
    /\ inflight = {}

\* the ordinary body {title: "Exam", date: "2025-12-05", time: "14:30",
\* userId: "alice"} with another time, description, title and date, userId
PostTime(time) == PostEvents(Exam, UNDEFINED, Dec05, time, alice)
PostDescription(description) == PostEvents(Exam, description, Dec05, HalfPastTwo, alice)
PostTitleDate(title, date) == PostEvents(title, UNDEFINED, date, HalfPastTwo, alice)
PostUserId(userId) == PostEvents(Exam, UNDEFINED, Dec05, HalfPastTwo, userId)

NextCreate ==
    \/ \E time \in TimesAll : PostTime(time)
    \/ \E description \in DescriptionsAll : PostDescription(description)
    \/ \E title \in TitlesAll, date \in DatesAll : PostTitleDate(title, date)
    \/ \E userId \in UserIdsAll : PostUserId(userId)
    \/ \E id \in EventIds : PutApprove(FAUadmin, id)
    \/ \E id \in EventIds : DeleteEvents(FAUadmin, id)

SpecCreate == InitCreate /\ [][NextCreate]_vars

----------------------------------------------------------------------------
(* The client: the list it fetches and the lists it displays *)

TimeLess(a, b) ==
    \/ a[1] < b[1]
    \/ a[1] = b[1] /\ a[2] < b[2]
    \/ a[1] = b[1] /\ a[2] = b[2] /\ a[3] < b[3]

\* new Date(`${a.date}T${a.time || '00:00:00'}`) of an event of the list
eventDate(event) == ParseDate(event.date.s)
eventTime(event) == ParseTime(Or(event.time, Midnight).s)

\* the sign of dateA - dateB
dateDifference(a, b) ==
    IF \/ DateLess(eventDate(a), eventDate(b))
       \/ eventDate(a) = eventDate(b) /\ TimeLess(eventTime(a), eventTime(b))
    THEN -1
    ELSE IF eventDate(a) = eventDate(b) /\ eventTime(a) = eventTime(b) THEN 0
    ELSE 1

\* sortOrder === 'asc' ? dateA - dateB : dateB - dateA
compareEvents(a, b, order) ==
    IF order = "asc" THEN dateDifference(a, b) ELSE dateDifference(b, a)

\* Array.prototype.sort is stable: an element goes after every element that
\* does not compare greater
RECURSIVE insertSorted(_, _, _)
insertSorted(sorted, event, order) ==
    IF sorted = <<>> \/ compareEvents(sorted[Len(sorted)], event, order) <= 0
    THEN Append(sorted, event)
    ELSE Append(insertSorted(SubSeq(sorted, 1, Len(sorted) - 1), event, order),
                sorted[Len(sorted)])

RECURSIVE sortPrefix(_, _, _)
sortPrefix(eventList, n, order) ==
    IF n = 0 THEN <<>>
    ELSE insertSorted(sortPrefix(eventList, n - 1, order), eventList[n], order)

\* const sortEvents = (eventList) => [...eventList].sort(...)
sortEvents(eventList, order) == sortPrefix(eventList, Len(eventList), order)

\* currentUser && currentUser.username === 'FAUadmin'
isAdmin(user) == user # NULL /\ user.username = FAUadmin

eventApproved(event) == event.approved = JsTrue
eventPending(event) == event.approved # JsTrue

\* events.filter(event => event.approved === true || event.approved === 1)
approvedEvents(eventList) == SelectSeq(eventList, eventApproved)

\* isAdmin ? events.filter(event => !event.approved || ...) : []
pendingEvents(user, eventList) ==
    IF isAdmin(user) THEN SelectSeq(eventList, eventPending) ELSE <<>>

\* fetchEvents: GET /api/events, setEvents(data); the request, the answer
\* and the state update taken as one step
fetchEvents ==
    /\ currentUser # NULL
    /\ \E o \in DateDescOrders(Events) :
          resp' = [Response("list", currentUser.username, 0, 200, Recordset(Events, o))
                       EXCEPT !.includePending = isAdmin(currentUser)]
    /\ events' = resp'.rows
    /\ loading' = FALSE
    /\ error' = NULL
    /\ UNCHANGED <<build, processVars, serverEventVars, accountVars,
                   currentUser, sortOrder, inflight>>

\* onChange={(e) => setSortOrder(e.target.value)}
setSortOrder(order) ==
    /\ sortOrder' = order
    /\ UNCHANGED <<build, processVars, serverEventVars, accountVars, resp,
                   currentUser, events, loading, error, inflight>>

----------------------------------------------------------------------------
(* Table Users, register and login *)

Usernames == {FAUadmin, alice, Str(<<>>)}
Passwords == {Str(<<"p", "w", "1">>), Str(<<"p", "w", "2">>), UNDEFINED}
Emails == {Str(<<"a@fau.edu">>), UNDEFINED}
Salts == {"saltA", "saltB"}
RegSlots == 1..MaxRegs

RECURSIVE Reverse(_)
Reverse(chars) ==
    IF chars = <<>> THEN <<>> ELSE Reverse(Tail(chars)) \o <<Head(chars)>>

BcryptPrefix == "$2b$10$"

\* bcrypt.hash(password, saltRounds): prefix, salt, digest of the password
bcryptHash(password, salt) == Str(<<BcryptPrefix, salt>> \o Reverse(password.s))

\* mutant: the stored value is compared with the password itself
bcryptComparePlain(password, hashed) == hashed = password

\* bcrypt.compare(password, hashed): hash again with the salt kept in hashed
bcryptCompare(password, hashed) ==
    /\ Len(hashed.s) >= 2
    /\ hashed.s[1] = BcryptPrefix
    /\ bcryptHash(password, hashed.s[2]) = hashed

\* the value the INSERT of register puts in the credential column
storedPassword(b, password, salt) ==
    IF b = "part_000" THEN bcryptHash(password, salt) ELSE password

\* register: the request is rejected before any query
registerInvalid(b, username, password, email) ==
    IF b = "part_000"
    THEN ~Truthy(username) \/ ~Truthy(password) \/ ~Truthy(email)
    ELSE ~Truthy(username) \/ ~Truthy(password)

\* the status register answers when its SELECT finds the username
duplicateStatus(b) == IF b = "part_000" THEN 400 ELSE 409

\* SELECT ... FROM Users WHERE username = @username
usersNamed(tbl, username) == {id \in DOMAIN tbl : tbl[id].username = username}

\* mutant: the table accepts a second row with the same username
uniqueViolationNever(tbl, username) == FALSE

\* username NVARCHAR(50) NOT NULL UNIQUE: the INSERT of a row with this
\* username is rejected
uniqueViolation(tbl, username) == usersNamed(tbl, username) # {}

\* mutant: the user object is the whole row
userViewWholeRow(id, row) ==
    [id |-> id, username |-> row.username, email |-> row.email,
     password |-> row.password]

\* the user object of a response: id, username, email
userView(id, row) == [id |-> id, username |-> row.username, email |-> row.email]

\* app.post('/api/register'), up to the answer of the SELECT
RegisterSelect(username, password, email) ==
    /\ IF registerInvalid(build, username, password, email)
       THEN /\ resp' = Response("register", username, 0, 400, <<>>)
            /\ UNCHANGED regs
       ELSE IF usersNamed(Users, username) # {}
       THEN /\ resp' = Response("register", username, 0, duplicateStatus(build), <<>>)
            /\ UNCHANGED regs
       ELSE \E slot \in RegSlots :
              /\ \A r \in regs : r.slot # slot
              /\ regs' = regs \cup {[slot |-> slot, username |-> username,
                                     password |-> password, email |-> email]}
              /\ UNCHANGED resp
    /\ UNCHANGED <<build, processVars, Users, userIdentity, registered,
                   serverEventVars, clientVars>>

\* app.post('/api/register'), from the hash to the answer of the INSERT;
\* the UNIQUE constraint on username rejects the INSERT with an exception,
\* and the identity value it drew is not given again
RegisterInsert(r, salt) ==
    /\ r \in regs
    /\ userIdentity < MaxUsers
    /\ regs' = regs \ {r}
    /\ userIdentity' = userIdentity + 1
    /\ IF uniqueViolation(Users, r.username)
       THEN /\ resp' = Response("register", r.username, 0, 500, <<>>)
            /\ UNCHANGED <<Users, registered>>
       ELSE LET id == userIdentity + 1
                row == [username |-> r.username,
                        email |-> Or(r.email, NULL),
                        password |-> storedPassword(build, r.password, salt)]
            IN  /\ Users' = Insert(Users, id, row)
                /\ resp' = [Response("register", r.username, id, 201, <<>>)
                                EXCEPT !.user = IF build = "part_000"
                                                THEN userView(id, row) ELSE NoUser]
                /\ registered' = registered \cup
                      {[username |-> r.username, password |-> r.password, id |-> id]}
    /\ UNCHANGED <<build, processVars, serverEventVars, clientVars>>

\* login: the rows whose credentials the handler accepts
loginRows(b, tbl, username, password) ==
    IF b = "part_000"
    THEN {id \in usersNamed(tbl, username) : bcryptCompare(password, tbl[id].password)}
    ELSE {id \in usersNamed(tbl, username) : tbl[id].password = password}

loginStatus(b, tbl, username, password) ==
    IF ~Truthy(username) \/ ~Truthy(password) THEN 400
    ELSE IF loginRows(b, tbl, username, password) = {} THEN 401
    ELSE 200

\* result.recordset[0]
loginUser(b, tbl, username, password) ==
    IF loginStatus(b, tbl, username, password) = 200
    THEN LET id == CHOOSE i \in loginRows(b, tbl, username, password) :
                      \A j \in loginRows(b, tbl, username, password) : i <= j
         IN  userView(id, tbl[id])
    ELSE NoUser

\* mutant: a username that matches no row gets a message of its own
loginMessageUserNotFound(b, tbl, username, password) ==
    IF ~Truthy(username) \/ ~Truthy(password)
    THEN "Username and password are required."
    ELSE IF usersNamed(tbl, username) = {} THEN "User not found."
    ELSE IF loginRows(b, tbl, username, password) = {}
    THEN "Invalid username or password."
    ELSE "Login successful."

\* the message of the body login answers with, branch by branch
loginMessage(b, tbl, username, password) ==
    IF ~Truthy(username) \/ ~Truthy(password)
    THEN "Username and password are required."
    ELSE IF b = "part_000"
    THEN IF usersNamed(tbl, username) = {} THEN "Invalid username or password."
         ELSE IF loginRows(b, tbl, username, password) = {}
         THEN "Invalid username or password."
         ELSE "Login successful."
    ELSE IF loginRows(b, tbl, username, password) = {}
         THEN "Invalid credentials"
         ELSE "Login successful"

\* app.post('/api/login')
Login(username, password) ==
    /\ resp' = [Response("login", username, 0,
                         loginStatus(build, Users, username, password), <<>>)
                    EXCEPT !.user = loginUser(build, Users, username, password),
                           !.message = loginMessage(build, Users, username, password),
                           !.password = password]
    /\ UNCHANGED <<build, processVars, accountVars, serverEventVars, clientVars>>

InitAccounts ==
    /\ build \in {"part_000", "server_js"}
    /\ pool = "connected"
    /\ reachable = TRUE
    /\ running = TRUE
    /\ Events = <<>>
    /\ identity = 0
    /\ Users = <<>>
    /\ userIdentity = 0
    /\ regs = {}
    /\ resp = NoResponse
    /\ deleted = {}
    /\ registered = {}
    /\ currentUser = NULL
    /\ events = <<>>
    /\ loading = FALSE
    /\ error = NULL
    /\ sortOrder = "asc"
    /\ inflight = {}

NextAccounts ==
    \/ \E username \in Usernames, password \in Passwords, email \in Emails :
          RegisterSelect(username, password, email)
    \/ \E r \in regs, salt \in Salts : RegisterInsert(r, salt)
    \/ \E username \in Usernames, password \in Passwords : Login(username, password)

SpecAccounts == InitAccounts /\ [][NextAccounts]_vars

----------------------------------------------------------------------------
(* The administrator logged in, creating events, fetching and sorting *)

AdminAccount ==
    [username |-> FAUadmin, email |-> Str(<<"a@fau.edu">>),
     password |-> bcryptHash(Str(<<"p", "w", "1">>), "saltA")]

SortTimes == {HalfPastTwo, UNDEFINED}
SortDates == {Dec05, Dec06}
SortOrders == {"asc", "desc"}

InitSort ==
    /\ build = "part_000"
    /\ pool = "connected"
    /\ reachable = TRUE
    /\ running = TRUE
    /\ Events = <<>>
    /\ identity = 0
    /\ Users = Insert(<<>>, 1, AdminAccount)
    /\ userIdentity = 1
    /\ regs = {}
    /\ resp = NoResponse
    /\ deleted = {}
    /\ registered = {[username |-> FAUadmin, password |-> Str(<<"p", "w", "1">>), id |-> 1]}
    /\ currentUser = userView(1, AdminAccount)
    /\ events = <<>>
    /\ loading = FALSE
    /\ error = NULL
    /\ sortOrder = "asc"
    /\ inflight = {}

NextSort ==
    \/ \E date \in SortDates, time \in SortTimes :
          PostEvents(Exam, UNDEFINED, date, time, FAUadmin)
    \/ fetchEvents
    \/ \E order \in SortOrders : setSortOrder(order)

SpecSort == InitSort /\ [][NextSort]_vars

----------------------------------------------------------------------------
(* The server process from its start, the database reachable or not *)

\* pool.request() throws while pool is undefined; the query is rejected
\* while the database does not answer
storeFails == pool # "connected" \/ ~reachable

\* initializeDatabase: sql.connect and the CREATE TABLE queries; its catch
\* block ends the process, in part_001 it only logs
initializeDatabase ==
    /\ running
    /\ pool = "connecting"
    /\ IF reachable
       THEN pool' = "connected" /\ UNCHANGED running
       ELSE pool' = "failed" /\ running' = (build = "part_001")
    /\ UNCHANGED <<build, reachable, serverEventVars, accountVars, resp, clientVars>>

\* the connection to the database is lost, or comes back
setReachable(up) ==
    /\ running
    /\ reachable' = up
    /\ UNCHANGED <<build, pool, running, serverEventVars, accountVars, resp, clientVars>>

\* the catch block of a handler: 500, nothing written
answerFailed(op, caller, id) ==
    /\ resp' = Response(op, caller, id, 500, <<>>)
    /\ UNCHANGED <<build, processVars, serverEventVars, accountVars, clientVars>>

\* app.post('/api/events') with the store failing or answering
HandlePost(title, date) ==
    /\ running
    /\ IF ~createInvalid(title, date) /\ storeFails
       THEN answerFailed("create", alice, 0)
       ELSE PostTitleDate(title, date)

\* app.get('/api/events')
HandleGet(caller) ==
    /\ running
    /\ IF storeFails
       THEN answerFailed("list", caller, 0)
       ELSE GetEvents(caller, FALSE)

\* app.delete('/api/events/:id')
HandleDelete(caller, id) ==
    /\ running
    /\ build = "part_000"
    /\ IF storeFails
       THEN answerFailed("delete", caller, id)
       ELSE DeleteEvents(caller, id)

\* app.post('/api/login')
HandleLogin(username, password) ==
    /\ running
    /\ build # "part_001"
    /\ IF Truthy(username) /\ Truthy(password) /\ storeFails
       THEN /\ resp' = [Response("login", username, 0, 500, <<>>)
                           EXCEPT !.password = password]
            /\ UNCHANGED <<build, processVars, serverEventVars, accountVars, clientVars>>
       ELSE Login(username, password)

StoreTitles == {Exam, Str(<<>>)}
StoreDates == {Dec05, Dec06}

InitStore ==
    /\ build \in {"part_000", "server_js", "part_001"}
    /\ pool = "connecting"
    /\ reachable \in BOOLEAN
    /\ running = TRUE
    /\ Events = <<>>
    /\ identity = 0
    /\ Users = <<>>
    /\ userIdentity = 0
    /\ regs = {}
    /\ resp = NoResponse
    /\ deleted = {}
    /\ registered = {}
    /\ currentUser = NULL
    /\ events = <<>>
    /\ loading = FALSE
    /\ error = NULL
    /\ sortOrder = "asc"
    /\ inflight = {}

NextStore ==
    \/ initializeDatabase
    \/ \E up \in BOOLEAN : setReachable(up)
    \/ \E title \in StoreTitles, date \in StoreDates : HandlePost(title, date)
    \/ \E caller \in Callers : HandleGet(caller)
    \/ \E caller \in Callers, id \in EventIds : HandleDelete(caller, id)
    \/ \E username \in Usernames, password \in Passwords : HandleLogin(username, password)

SpecStore == InitStore /\ [][NextStore]_vars

----------------------------------------------------------------------------
(* The client with its requests in flight *)

\* how many answers the client may be waiting for at once
MaxInflight == 2

\* a request the server has handled and whose answer has not reached the
\* client: by is the handler that awaits it, pendingThen the ids that were
\* not approved when the list was read
Request(kind, by, id, status, rows, pendingThen) ==
    [kind |-> kind, by |-> by, id |-> id, status |-> status, rows |-> rows,
     pendingThen |-> pendingThen]

\* onLogin({ username: 'bypass', id: 0, email: 'bypass@example.com' })
BypassUser ==
    [id |-> 0, username |-> Str(<<"bypass">>), email |-> Str(<<"bypass@example.com">>)]

\* fetchEvents up to its await: the answers GET /api/events can give now
fetchRequests(by) ==
    {Request("fetch", by, 0, 200, Recordset(Events, o),
             {i \in DOMAIN Events : ~Events[i].approved}) :
        o \in DateDescOrders(Events)}

\* setLoading(true); setError(null); await fetch(url)
startFetch(by, others) ==
    /\ \E r \in fetchRequests(by) : inflight' = others \cup {r}
    /\ loading' = TRUE
    /\ error' = NULL

\* AuthScreen.handleSubmit with isLogin: POST /api/login, onLogin(data.user),
\* then the effect on currentUser runs fetchEvents
authLogin(username, password) ==
    /\ currentUser = NULL
    /\ Cardinality(inflight) < MaxInflight
    /\ resp' = [Response("login", username, 0,
                         loginStatus(build, Users, username, password), <<>>)
                    EXCEPT !.user = loginUser(build, Users, username, password),
                           !.message = loginMessage(build, Users, username, password),
                           !.password = password]
    /\ IF resp'.status = 200
       THEN /\ currentUser' = resp'.user
            /\ startFetch("login", inflight)
       ELSE UNCHANGED <<currentUser, inflight, loading, error>>
    /\ UNCHANGED <<build, processVars, serverEventVars, accountVars, events, sortOrder>>

\* the button "Bypass Login (Skip Authentication)"
bypassLogin ==
    /\ currentUser = NULL
    /\ Cardinality(inflight) < MaxInflight
    /\ currentUser' = BypassUser
    /\ startFetch("login", inflight)
    /\ UNCHANGED <<build, processVars, serverEventVars, accountVars, resp, events,
                   sortOrder>>

\* the button "Logout": setCurrentUser(null)
logout ==
    /\ currentUser # NULL
    /\ currentUser' = NULL
    /\ UNCHANGED <<build, processVars, serverEventVars, accountVars, resp, events,
                   loading, error, sortOrder, inflight>>

\* if (!timeValue || timeValue.trim() === '') timeValue = null
submittedTime(time) == IF ~Truthy(time) \/ trim(time.s) = <<>> THEN NULL ELSE time

\* handleSubmit up to its await: the form is shown to a logged-in user and
\* its button is disabled while loading; the server stores the event
handleSubmit(date, time) ==
    /\ currentUser # NULL
    /\ ~loading
    /\ Cardinality(inflight) < MaxInflight
    /\ identity < MaxEvents
    /\ LET id == InsertedId(identity, Events)
           tv == timeValue(build, submittedTime(time))
       IN  /\ InsertAccepts(date, tv)
           /\ identity' = identity + 1
           /\ Events' = Insert(Events, id,
                               InsertedRow(Exam, storedDescription(build, Str(<<>>)),
                                           date, tv, currentUser.username))
           /\ resp' = Response("create", currentUser.username, id, 201,
                               <<OutputRow(build, id, Events'[id])>>)
           /\ inflight' = inflight \cup
                  {Request("create", "submit", id, 201, resp'.rows, {})}
    /\ loading' = TRUE
    /\ error' = NULL
    /\ UNCHANGED <<build, processVars, deleted, accountVars, currentUser, events,
                   sortOrder>>

\* handleSubmit after the answer of the POST: await fetchEvents()
submitAnswered(r) ==
    /\ r \in inflight
    /\ r.kind = "create"
    /\ startFetch("submit", inflight \ {r})
    /\ UNCHANGED <<build, processVars, serverEventVars, accountVars, resp,
                   currentUser, events, sortOrder>>

\* fetchEvents after its await: setEvents(data), finally setLoading(false);
\* the finally block of the handler that awaited it sets the same value
fetchAnswered(r) ==
    /\ r \in inflight
    /\ r.kind = "fetch"
    /\ events' = r.rows
    /\ loading' = FALSE
    /\ inflight' = inflight \ {r}
    /\ UNCHANGED <<build, processVars, serverEventVars, accountVars, resp,
                   currentUser, error, sortOrder>>

\* the ids of the cards that show the button "Approve"
approvable == {pendingEvents(currentUser, events)[i].id :
                  i \in DOMAIN pendingEvents(currentUser, events)}

\* the ids of the cards that show the button "Delete"
deletable == IF isAdmin(currentUser) THEN {events[i].id : i \in DOMAIN events} ELSE {}

\* handleApprove up to its await; the button is not disabled while loading
handleApprove(id) ==
    /\ id \in approvable
    /\ Cardinality(inflight) < MaxInflight
    /\ Events' = approveEvents(Events, id)
    /\ resp' = [Response("approve", currentUser.username, id, approveStatus(Events, id),
                         approvedRow(Events', id))
                    EXCEPT !.repeat = id \in DOMAIN Events /\ Events[id].approved]
    /\ inflight' = inflight \cup
           {Request("approve", "approve", id, resp'.status, resp'.rows, {})}
    /\ loading' = TRUE
    /\ error' = NULL
    /\ UNCHANGED <<build, processVars, identity, deleted, accountVars, currentUser,
                   events, sortOrder>>

\* prevEvents.map(event => event.id === id ? { ...event, approved: true } : event)
markApproved(eventList, id) ==
    [i \in DOMAIN eventList |->
        IF eventList[i].id = id THEN [eventList[i] EXCEPT !.approved = JsTrue]
        ELSE eventList[i]]

\* handleApprove after its await: the local update, or on an error
\* setError and await fetchEvents(), whose first statements reset both
approveAnswered(r) ==
    /\ r \in inflight
    /\ r.kind = "approve"
    /\ IF r.status = 200
       THEN /\ events' = markApproved(events, r.id)
            /\ loading' = FALSE
            /\ inflight' = inflight \ {r}
            /\ UNCHANGED error
       ELSE /\ startFetch("approve", inflight \ {r})
            /\ UNCHANGED events
    /\ UNCHANGED <<build, processVars, serverEventVars, accountVars, resp,
                   currentUser, sortOrder>>

\* handleDelete up to its await, window.confirm answered with OK
handleDelete(id) ==
    /\ id \in deletable
    /\ Cardinality(inflight) < MaxInflight
    /\ IF rowsAffected(Events, id) = 0
       THEN /\ resp' = Response("delete", currentUser.username, id, 404, <<>>)
            /\ UNCHANGED serverEventVars
       ELSE /\ Events' = Remove(Events, id)
            /\ deleted' = deleted \cup {id}
            /\ resp' = Response("delete", currentUser.username, id, 200, <<>>)
            /\ UNCHANGED identity
    /\ inflight' = inflight \cup
           {Request("delete", "delete", id, resp'.status, <<>>, {})}
    /\ loading' = TRUE
    /\ error' = NULL
    /\ UNCHANGED <<build, processVars, accountVars, currentUser, events, sortOrder>>

\* prevEvents.filter(event => event.id !== id)
withoutEvent(eventList, id) ==
    SelectSeq(eventList, LAMBDA event : event.id # id)

\* handleDelete after its await
deleteAnswered(r) ==
    /\ r \in inflight
    /\ r.kind = "delete"
    /\ IF r.status = 200
       THEN /\ events' = withoutEvent(events, r.id)
            /\ loading' = FALSE
            /\ inflight' = inflight \ {r}
            /\ UNCHANGED error
       ELSE /\ startFetch("delete", inflight \ {r})
            /\ UNCHANGED events
    /\ UNCHANGED <<build, processVars, serverEventVars, accountVars, resp,
                   currentUser, sortOrder>>

ClientPasswords == {Str(<<"p", "w", "1">>), Str(<<"p", "w", "2">>)}
ClientDates == {Dec05, Dec06}
\* the time field of the form: a time of day, or emptied
ClientTimes == {HalfPastTwo, Str(<<>>)}

InitClient ==
    /\ build = "part_000"
    /\ pool = "connected"
    /\ reachable = TRUE
    /\ running = TRUE
    /\ Events = <<>>
    /\ identity = 0
    /\ Users = Insert(<<>>, 1, AdminAccount)
    /\ userIdentity = 1
    /\ regs = {}
    /\ resp = NoResponse
    /\ deleted = {}
    /\ registered = {[username |-> FAUadmin, password |-> Str(<<"p", "w", "1">>), id |-> 1]}
    /\ currentUser = NULL
    /\ events = <<>>
    /\ loading = FALSE
    /\ error = NULL
    /\ sortOrder = "asc"
    /\ inflight = {}

NextClient ==
    \/ \E password \in ClientPasswords : authLogin(FAUadmin, password)
    \/ bypassLogin
    \/ logout
    \/ \E date \in ClientDates, time \in ClientTimes : handleSubmit(date, time)
    \/ \E r \in inflight : submitAnswered(r)
    \/ \E r \in inflight : fetchAnswered(r)
    \/ \E id \in EventIds : handleApprove(id)
    \/ \E r \in inflight : approveAnswered(r)
    \/ \E id \in EventIds : handleDelete(id)
    \/ \E r \in inflight : deleteAnswered(r)

SpecClient == InitClient /\ [][NextClient]_vars

----------------------------------------------------------------------------
(* Properties of the event workflow *)

RowIds(rows) == {rows[i].id : i \in DOMAIN rows}

\* C1: every create that succeeds stores and returns an event whose approved
\* flag is true if and only if the owner is the administrator identity.
C1_CreateApprovedIffAdmin ==
    resp.op = "create" /\ resp.status = 201 =>
        /\ Events[resp.id].approved <=> (Events[resp.id].userId = FAUadmin)
        /\ (resp.rows[1].approved = JsTrue) <=> (resp.rows[1].userId = FAUadmin)

\* C2: the event list returned to a caller who is not the administrator never
\* contains an event whose approved flag is false.
C2_NonAdminListHasNoPending ==
    resp.op = "list" /\ resp.caller # FAUadmin =>
        \A id \in RowIds(resp.rows) : Events[id].approved

\* C3: an approved event never becomes unapproved again, and a deleted event
\* is never in the table, never returned and never changed by a later request.
C3_OneWayLifecycle ==
    [][/\ \A id \in DOMAIN Events \cap DOMAIN Events' :
             Events[id].approved => Events'[id].approved
       /\ deleted' \cap DOMAIN Events' = {}
       /\ deleted' \cap RowIds(resp'.rows) = {}
       /\ resp'.op \in {"approve", "delete"} /\ resp'.id \in deleted =>
             resp'.status # 200 /\ Events' = Events]_vars

C3_Witness ==
    /\ resp.op = "approve" /\ resp.id \in deleted /\ resp.status = 404
    /\ \E id \in DOMAIN Events : Events[id].approved

\* C4: only an administrator's delete removes an event, only an administrator's
\* approve sets an approved flag, and an approve or delete sent by anyone else
\* leaves the table Events unchanged.
C4_OnlyAdministratorMutates ==
    [][/\ DOMAIN Events \ DOMAIN Events' # {} =>
             resp'.op = "delete" /\ resp'.caller = FAUadmin
       /\ (\E id \in DOMAIN Events \cap DOMAIN Events' :
               ~Events[id].approved /\ Events'[id].approved) =>
             resp'.op = "approve" /\ resp'.caller = FAUadmin
       /\ resp'.op \in {"approve", "delete"} /\ resp'.caller # FAUadmin =>
             Events' = Events]_vars

\* C5: an approve or delete sent by a caller who is not the administrator is
\* answered PermissionDenied (403), whether or not the id exists.
C5_NonAdminPermissionDenied ==
    resp.op \in {"approve", "delete"} /\ resp.caller # FAUadmin => resp.status = 403

\* C6: an approve of an existing event succeeds and leaves the event
\* approved; repeated on an approved event it succeeds again and leaves the
\* table as the first call left it.
C6_SetApprovedIdempotent ==
    [][resp'.op = "approve" /\ resp'.id \in DOMAIN Events =>
          /\ resp'.status = 200
          /\ Events'[resp'.id].approved
          /\ Events[resp'.id].approved => Events' = Events]_vars

C6_Witness ==
    resp.op = "approve" /\ resp.status = 200 /\ resp.repeat

\* C7: a delete of an id that is not in the table answers NotFound (404) and
\* changes nothing; a delete of an id that is there answers 200 and removes
\* it; a delete of an id already deleted answers NotFound.
C7_DeleteNotFound ==
    [][resp'.op = "delete" =>
          /\ resp'.id \notin DOMAIN Events => resp'.status = 404 /\ Events' = Events
          /\ resp'.id \in DOMAIN Events =>
                resp'.status = 200 /\ Events' = Remove(Events, resp'.id)
          /\ resp'.id \in deleted => resp'.status = 404]_vars

C7_Witness ==
    resp.op = "delete" /\ resp.status = 404 /\ resp.id \in deleted

\* C8: an approve of an id that is not in the table (never created, or
\* deleted) answers NotFound (404), never 200, and changes no event.
C8_ApproveNotFound ==
    [][resp'.op = "approve" /\ resp'.id \notin DOMAIN Events =>
          resp'.status = 404 /\ Events' = Events]_vars

C8_Witness ==
    /\ resp.op = "approve" /\ resp.status = 404
    /\ resp.id \in deleted /\ Events # <<>>

\* C9: in every listing, an event a non-administrator created is listed to a
\* non-administrator exactly when it is approved, and is listed to the
\* administrator asking with includePending=true, marked not approved while
\* it is pending.
C9_PendingThenVisible ==
    resp.op = "list" =>
        \A id \in DOMAIN Events :
            Events[id].userId # FAUadmin =>
                IF resp.caller # FAUadmin
                THEN id \in RowIds(resp.rows) <=> Events[id].approved
                ELSE resp.includePending =>
                        \E i \in DOMAIN resp.rows :
                            /\ resp.rows[i].id = id
                            /\ (resp.rows[i].approved = JsTrue) <=> Events[id].approved

----------------------------------------------------------------------------
(* Properties of the accounts *)

\* C10: for every username and password with which a register succeeded, a
\* login with the same username and password succeeds, in every later state,
\* and returns the id and the username of the account that register created.
C10_RegisterThenLogin ==
    /\ \A r \in registered :
          /\ loginStatus(build, Users, r.username, r.password) = 200
          /\ loginUser(build, Users, r.username, r.password).id = r.id
          /\ loginUser(build, Users, r.username, r.password).username = r.username
    /\ resp.op = "login" =>
          \A r \in registered :
              r.username = resp.caller /\ r.password = resp.password =>
                  /\ resp.status = 200
                  /\ resp.user.id = r.id /\ resp.user.username = r.username

C10_Witness ==
    /\ resp.op = "login" /\ resp.status = 200
    /\ Cardinality(registered) = 2
    /\ \E r \in registered :
          /\ r.username = resp.caller /\ r.password = resp.password
          /\ r.id = 2

\* C11: a register whose username is already in table Users (the request
\* carrying username, password and email) is answered DuplicateUsername (409)
\* and leaves table Users as it was: no row added, no row changed.
C11_DuplicateRegisterRefused ==
    [][\A username \in Usernames, password \in Passwords, email \in Emails :
          (/\ RegisterSelect(username, password, email)
           /\ Truthy(username) /\ Truthy(password) /\ Truthy(email)
           /\ usersNamed(Users, username) # {})
          => (resp'.status = 409 /\ Users' = Users /\ regs' = regs)]_vars

\* C12: a login with a username no account has and a login with the
\* username of an account and a wrong password are answered alike: the same
\* status, the same message and the same (empty) user object.
C12_LoginFailuresAlike ==
    /\ \A u1, u2 \in Usernames, p1, p2 \in Passwords :
          (/\ Truthy(u1) /\ Truthy(p1) /\ Truthy(u2) /\ Truthy(p2)
           /\ usersNamed(Users, u1) = {}
           /\ usersNamed(Users, u2) # {}
           /\ loginRows(build, Users, u2, p2) = {})
          => /\ loginStatus(build, Users, u1, p1) = loginStatus(build, Users, u2, p2)
             /\ loginMessage(build, Users, u1, p1) = loginMessage(build, Users, u2, p2)
             /\ loginUser(build, Users, u1, p1) = loginUser(build, Users, u2, p2)
    /\ resp.op = "login" /\ resp.status \notin {200, 400} =>
          \A u \in Usernames, p \in Passwords :
              Truthy(u) /\ Truthy(p) /\ usersNamed(Users, u) = {} =>
                  /\ resp.status = loginStatus(build, Users, u, p)
                  /\ resp.message = loginMessage(build, Users, u, p)
                  /\ resp.user = loginUser(build, Users, u, p)

C12_Witness ==
    /\ resp.op = "login" /\ resp.status = 401
    /\ \E r \in registered : r.username = resp.caller /\ r.password # resp.password
    /\ \E u \in Usernames : Truthy(u) /\ usersNamed(Users, u) = {}

\* C13: however the SELECTs and INSERTs of concurrent register requests
\* for one username interleave, table Users never holds two rows with the
\* same username and at most one of the requests is answered 201.
C13_NoDuplicateAccounts ==
    /\ \A i, j \in DOMAIN Users : Users[i].username = Users[j].username => i = j
    /\ \A r1, r2 \in registered : r1.username = r2.username => r1 = r2

\* two requests passed the SELECT for the same username; the second INSERT
\* has been answered
C13_Witness ==
    /\ resp.op = "register" /\ resp.status = 500
    /\ Cardinality(usersNamed(Users, resp.caller)) = 1
    /\ \E r \in registered : r.username = resp.caller

\* C14: a register that passed its own SELECT and whose INSERT is rejected
\* because a concurrent register inserted the username in between is
\* answered DuplicateUsername (409), as a register whose SELECT finds the
\* username is; it is never answered 500 for that cause.
C14_LostRaceAnswered409 ==
    [][\A r \in regs, salt \in Salts :
          (RegisterInsert(r, salt) /\ uniqueViolation(Users, r.username))
          => resp'.status = 409]_vars

----------------------------------------------------------------------------
(* Properties of the event store *)

\* C15: each DELETE and each approve is one statement on table Events, so
\* every interleaving of approves and deletes of one id is a serial order of
\* them: a delete answered 200 removes the row and leaves the other rows as
\* they were, an approve that runs after the delete answers NotFound and
\* changes nothing, and an id whose delete succeeded is never in the table
\* again.
C15_ApproveDeleteSerial ==
    [][/\ resp'.op = "delete" /\ resp'.status = 200 =>
             /\ DOMAIN Events' = DOMAIN Events \ {resp'.id}
             /\ \A i \in DOMAIN Events' : Events'[i] = Events[i]
       /\ resp'.op = "approve" /\ resp'.id \in deleted =>
             resp'.status = 404 /\ Events' = Events
       /\ resp'.op = "approve" /\ resp'.id \in DOMAIN Events =>
             /\ DOMAIN Events' = DOMAIN Events
             /\ \A i \in DOMAIN Events \ {resp'.id} : Events'[i] = Events[i]
       /\ DOMAIN Events' \cap deleted = {}]_vars

\* the only event ever created was deleted, and an approve of it came after
C15_Witness ==
    /\ resp.op = "approve" /\ resp.status = 404
    /\ deleted = {resp.id} /\ identity = 1 /\ Events = <<>>

\* C16: a create whose time is missing, empty, blank or not a time of day
\* stores the event with time NULL, and a create whose description is
\* missing, empty or blank stores the event with description NULL.
C16_BlankStoredAbsent ==
    [][/\ \A time \in TimesAll :
             (PostTime(time) /\ (~Truthy(time) \/ ~IsTimeOfDay(trim(time.s))))
             => (resp'.status = 201 /\ Events'[resp'.id].time = NULL)
       /\ \A description \in DescriptionsAll :
             (/\ PostDescription(description)
              /\ (~Truthy(description) \/ trim(description.s) = <<>>))
             => (resp'.status = 201 /\ Events'[resp'.id].description = NULL)]_vars

\* C17: every row of table Events has a non-empty title and a date, and a
\* create whose title is missing or empty, or whose date is missing, is
\* answered InvalidInput (400) and leaves table Events as it was.
C17_TitleAndDatePresent ==
    [][/\ \A id \in DOMAIN Events' :
             /\ Events'[id].title.t = "str" /\ Events'[id].title.s # <<>>
             /\ Events'[id].date.t = "date"
       /\ \A title \in TitlesAll, date \in DatesAll :
             (/\ PostTitleDate(title, date)
              /\ (title \in {UNDEFINED, Str(<<>>)} \/ date = UNDEFINED))
             => (resp'.status = 400 /\ Events' = Events)]_vars

C17_Witness ==
    /\ resp.op = "create" /\ resp.status = 400
    /\ Cardinality(DOMAIN Events) = 2

\* C18 as stated: the owner stored by a create is the userId of the body,
\* it is "anonymous" exactly when the userId is missing or empty, and the
\* owner of a row never changes.
C18_AnonymousIffNoUserId ==
    [][/\ resp'.op = "create" /\ resp'.status = 201 =>
             /\ Truthy(resp'.caller) => Events'[resp'.id].userId = resp'.caller
             /\ Events'[resp'.id].userId = anonymous <=> ~Truthy(resp'.caller)
       /\ \A id \in DOMAIN Events \cap DOMAIN Events' :
             Events'[id].userId = Events[id].userId]_vars

\* C18: the owner stored by a create is the userId of the body when that is
\* a non-empty string and "anonymous" otherwise, so it is "anonymous" exactly
\* when the userId is missing, empty or the string "anonymous" itself, which
\* is what the client sends when nobody is logged in; the owner of a row
\* never changes.
C18_OwnerIsUserIdOrAnonymous ==
    [][/\ resp'.op = "create" /\ resp'.status = 201 =>
             /\ Truthy(resp'.caller) => Events'[resp'.id].userId = resp'.caller
             /\ ~Truthy(resp'.caller) => Events'[resp'.id].userId = anonymous
             /\ Events'[resp'.id].userId = anonymous <=>
                   (~Truthy(resp'.caller) \/ resp'.caller = anonymous)
       /\ \A id \in DOMAIN Events \cap DOMAIN Events' :
             Events'[id].userId = Events[id].userId]_vars

C18_Witness ==
    /\ resp.op = "create" /\ resp.status = 201 /\ resp.caller = anonymous
    /\ Events[resp.id].userId = anonymous
    /\ \E id \in DOMAIN Events : Events[id].userId = alice /\ Events[id].approved

\* C19: the id a successful create returns is the id of no row of the
\* table and of no row deleted before, and it is the id of the row just
\* inserted; a row that stays in the table stays under its id with its
\* content (the approved flag apart).
C19_IdsNeverReused ==
    [][/\ resp'.op = "create" /\ resp'.status = 201 =>
             /\ resp'.id \notin DOMAIN Events \cup deleted
             /\ DOMAIN Events' = DOMAIN Events \cup {resp'.id}
             /\ resp'.rows[1].id = resp'.id
       /\ \A id \in DOMAIN Events \cap DOMAIN Events' :
             [Events'[id] EXCEPT !.approved = Events[id].approved] = Events[id]]_vars

\* a create answered after the delete of an earlier row
C19_Witness ==
    /\ resp.op = "create" /\ resp.status = 201
    /\ deleted # {} /\ resp.id \in DOMAIN Events

----------------------------------------------------------------------------
(* Properties of the lists *)

\* C20: the rows GET /api/events returns are the rows of the table ordered
\* by date, and each list the client displays is a permutation of the list
\* it sorts, ordered by date and time in the direction of sortOrder; in the
\* answer and in each displayed list, two events with the same date and the
\* same time appear in ascending order of id, in both directions.
C20_OrderedWithTiesById ==
    /\ resp.op = "list" =>
          /\ Len(resp.rows) = Cardinality(DOMAIN Events)
          /\ RowIds(resp.rows) = DOMAIN Events
          /\ \A i, j \in DOMAIN resp.rows :
                i < j => /\ dateDifference(resp.rows[i], resp.rows[j]) = 0 =>
                               resp.rows[i].id < resp.rows[j].id
                         /\ ~DateLess(eventDate(resp.rows[i]), eventDate(resp.rows[j]))
    /\ \A eventList \in {approvedEvents(events), pendingEvents(currentUser, events)} :
          LET sorted == sortEvents(eventList, sortOrder)
          IN  /\ Len(sorted) = Len(eventList)
              /\ RowIds(sorted) = RowIds(eventList)
              /\ \A i, j \in DOMAIN sorted :
                    i < j => /\ compareEvents(sorted[i], sorted[j], sortOrder) <= 0
                             /\ dateDifference(sorted[i], sorted[j]) = 0 =>
                                   sorted[i].id < sorted[j].id

C26_ValidTimeKept ==
    [][\A time \in TimesAll :
          (/\ PostTime(time)
           /\ resp'.status = 201
           /\ Truthy(time) /\ IsTimeOfDay(trim(time.s)))
          => Events'[resp'.id].time = SqlTime(ParseTime(trim(time.s)))]_vars

----------------------------------------------------------------------------
(* Properties of the stored credential and of the answers of the accounts *)

\* C22: for every account, the value in the credential column is not the
\* password its register was sent, and it is a verifier derived from that
\* password: the bcrypt check of the password against it succeeds.
C22_CredentialNeverRawPassword ==
    \A r \in registered :
        /\ Users[r.id].password # r.password
        /\ bcryptCompare(r.password, Users[r.id].password)

\* C23: the user object in an answer of register or login, successful or
\* not, has the fields id, username and email and no other, and none of
\* them holds the stored credential of an account or the password an
\* account was registered with.
C23_NoCredentialInAnswers ==
    resp.op \in {"register", "login"} =>
        /\ DOMAIN resp.user \subseteq {"id", "username", "email"}
        /\ \A id \in DOMAIN Users :
              /\ resp.user.username # Users[id].password
              /\ resp.user.email # Users[id].password
        /\ \A r \in registered :
              /\ resp.user.username # r.password
              /\ resp.user.email # r.password

\* the answer of the register that created the second account
C23_Witness ==
    /\ resp.op = "register" /\ resp.status = 201
    /\ resp.user.id = 2 /\ resp.user.username = Users[2].username

\* C25: a register is answered InvalidInput (400), creating no account,
\* exactly when its username or its password is missing or empty: with
\* both present and a username no account has, the request goes on to its
\* INSERT whether or not it carries an email, and the INSERT of a username
\* still free is answered 201.
C25_Register400IffNoUsernameOrPassword ==
    [][/\ \A username \in Usernames, password \in Passwords, email \in Emails :
             RegisterSelect(username, password, email) =>
                /\ (~Truthy(username) \/ ~Truthy(password)) =>
                      /\ resp'.op = "register" /\ resp'.status = 400
                      /\ UNCHANGED accountVars
                /\ (/\ Truthy(username) /\ Truthy(password)
                    /\ usersNamed(Users, username) = {}) =>
                      regs' # regs
       /\ \A r \in regs, salt \in Salts :
             (RegisterInsert(r, salt) /\ ~uniqueViolation(Users, r.username))
             => resp'.status = 201]_vars

----------------------------------------------------------------------------
(* Properties of the server process *)

\* C24: a request that reaches the store while the store fails (the pool
\* not initialized, or the database not answering) is answered 500, not
\* 400, 401, 404 or 409, and leaves the tables as they were; and the process
\* keeps running, whatever store operation fails.
C24_StoreFailureAnswered500 ==
    [][/\ (/\ storeFails
           /\ \/ \E title \in StoreTitles, date \in StoreDates :
                    HandlePost(title, date) /\ ~createInvalid(title, date)
              \/ \E caller \in Callers : HandleGet(caller)
              \/ \E caller \in Callers, id \in EventIds : HandleDelete(caller, id)
              \/ \E username \in Usernames, password \in Passwords :
                    HandleLogin(username, password) /\ Truthy(username) /\ Truthy(password))
          => /\ resp'.status = 500
             /\ UNCHANGED <<serverEventVars, accountVars>>
       /\ running => running']_vars

----------------------------------------------------------------------------
(* The lists of upcoming and past events *)

EndOfDay == Str(<<"2", "3", ":", "5", "9", ":", "5", "9">>)
Noon == Str(<<"1", "2", ":", "0", "0", ":", "0", "0">>)

\* a point in time: <<date, time of day>>
Instant(date, time) == <<ParseDate(date.s), ParseTime(time.s)>>

InstantLess(a, b) == DateLess(a[1], b[1]) \/ (a[1] = b[1] /\ TimeLess(a[2], b[2]))

\* new Date(`${event.date}T${event.time || fallback}`)
eventInstant(event, fallback) == Instant(event.date, Or(event.time, fallback))

\* upcomingEvents: the approved events with date T (time || '23:59:59') >= now
upcomingEvents(eventList, now) ==
    SelectSeq(approvedEvents(eventList),
              LAMBDA event : ~InstantLess(eventInstant(event, EndOfDay), now))

\* pastEvents: the approved events with date T (time || '00:00:00') < now
pastEvents(eventList, now) ==
    SelectSeq(approvedEvents(eventList),
              LAMBDA event : InstantLess(eventInstant(event, Midnight), now))

\* the values const now = new Date() takes in the model
Nows == {Instant(Dec05, Midnight), Instant(Dec05, Noon), Instant(Dec05, EndOfDay),
         Instant(Dec06, Noon)}

InList(event, eventList) == \E i \in DOMAIN eventList : eventList[i] = event

\* C27: at every instant every approved event of the client's list, with or
\* without a time of day, is in exactly one of upcomingEvents and pastEvents
C27_UpcomingOrPastNotBoth ==
    \A now \in Nows :
        \A i \in DOMAIN events :
            eventApproved(events[i]) =>
                (InList(events[i], upcomingEvents(events, now))
                    # InList(events[i], pastEvents(events, now)))

----------------------------------------------------------------------------
(* Properties of the client's requests in flight *)

\* the client's list shows the event id as approved
shownApproved(eventList, id) ==
    \E i \in DOMAIN eventList : eventList[i].id = id /\ eventApproved(eventList[i])

\* C28: the answer of an approve has marked a stored event approved in the
\* client's list; when the answer of a fetch that read the list before the
\* approve took effect is handled as the last request in flight, the list
\* still shows the event as approved
C28_ApprovedAfterStaleFetch ==
    [][\A r \in inflight : \A id \in r.pendingThen :
          (/\ id \in DOMAIN Events
           /\ Events[id].approved
           /\ shownApproved(events, id)
           /\ fetchAnswered(r)
           /\ inflight' = {})
          => shownApproved(events', id)]_vars

\* a handleSubmit has not reached the end of its finally block: its POST or
\* the fetchEvents it awaits is in flight
submitting == \E r \in inflight : r.by = "submit"

\* C29: while a submission is in flight loading is true, whatever approve,
\* delete or fetch handlers finish meanwhile, so the submit button stays
\* disabled and no second submission starts
C29_LoadingWhileSubmitting == submitting => loading

----------------------------------------------------------------------------
(* Properties of the client's session *)

\* C30: currentUser becomes a user only in a step in which the server
\* answers a login request 200 for a username and password that match an
\* account, and the user is the one of that answer
C30_AuthenticatedOnlyByLogin ==
    [][currentUser' # NULL /\ currentUser' # currentUser =>
          /\ resp'.op = "login"
          /\ resp'.status = 200
          /\ resp'.user = currentUser'
          /\ loginRows(build, Users, resp'.caller, resp'.password) # {}]_vars

============================================================================
